---------------------------- MODULE Spec2Model ----------------------------
(***************************************************************************)
(* A model of deepseek-engineer (src/r1.py, src/rate_limiter.py): the      *)
(* sliding-window rate limiter, the workspace path check, the snippet      *)
(* patch, the file writer, the directory scan and the conversation log of  *)
(* the main loop.                                                          *)
(*                                                                         *)
(* Text is a sequence of symbols.  The symbols "a" and "b" are single      *)
(* characters; the symbol "B" is one fixed block of BlockSize characters   *)
(* that contains neither "a" nor "b" and does not overlap itself, so that  *)
(* matching on symbols is matching on characters and the size ceiling of   *)
(* create_file is met by texts of a few symbols.                           *)
(***************************************************************************)
EXTENDS Integers, Sequences, FiniteSets, TLC

VARIABLES
    \* ---- RateLimiter (src/rate_limiter.py, src/r1.py:49-73)
    max_calls,      \* self.max_calls
    period,         \* self.period
    timestamps,     \* self.timestamps, oldest first
    clock,          \* the last reading of time.time()
    admitted,       \* history: the time recorded by every admitted acquisition
    rl_result,      \* how the last acquisition ended
    \* ---- normalize_path (src/r1.py:429-444)
    np_input,       \* path_str of the last call
    np_result,      \* what the last call returned or raised
    \* ---- the file system and the session (src/r1.py)
    files,          \* the content of every file the model follows
    conversation_history,   \* r1.py:449, the list of messages
    pc,             \* where the run stands
    last,           \* the last create_file / apply_diff_edit call and how it ended
    first,          \* in SpecEdit: the edit made before the inverse edit
    pending_creates,    \* response_data.files_to_create not yet handled
    pending_edits,      \* response_data.files_to_edit not yet handled
    valid_files,        \* r1.py:496, the files read for this request
    requests,           \* how many requests the session has made
    adds,               \* how many /add commands it has handled
    response,           \* how the last request ended and the assistant_reply it returned
    pre_log,            \* history: the log as the last request found it
    rebuilt,            \* history: cleaned_history of the last request
    scan                \* r1.py:327-388, the locals of a directory scan in progress

rlvars == <<max_calls, period, timestamps, clock, admitted, rl_result>>
npvars == <<np_input, np_result>>
fsvars == <<files, conversation_history, pc, last, first>>
mainvars == <<pending_creates, pending_edits, valid_files, requests, adds,
              response, pre_log, rebuilt>>
vars == <<rlvars, npvars, fsvars, mainvars, scan>>
notrl == <<npvars, fsvars, mainvars, scan>>
notnp == <<rlvars, fsvars, mainvars, scan>>
notfs == <<rlvars, npvars, mainvars, scan>>
notmain == <<rlvars, npvars, scan>>
notscan == <<rlvars, npvars, mainvars>>

-----------------------------------------------------------------------------
(* Bounds of the rate limiter model.                                       *)
MaxCallsBound == 2
MaxPeriod == 2
MaxClock == 4
MaxAcquisitions == 5
MaxOversleep == 1

(* rate_limiter.py:12-13: drop the entries older than the period.          *)
RECURSIVE Expire(_, _, _)
Expire(ts, now, p) ==
    IF ts # <<>> /\ now - ts[1] > p THEN Expire(Tail(ts), now, p) ELSE ts

(* rate_limiter.py:5-8: the constructor stores what it is given.           *)
RLInit ==
    /\ max_calls \in 0..MaxCallsBound
    /\ period \in 1..MaxPeriod
    /\ timestamps = <<>>
    /\ clock = 0
    /\ admitted = <<>>
    /\ rl_result = "none"

(* Time passes between two acquisitions.                                   *)
Tick ==
    /\ clock < MaxClock
    /\ clock' = clock + 1
    /\ UNCHANGED <<max_calls, period, timestamps, admitted, rl_result>>
    /\ UNCHANGED notrl

(* rate_limiter.py:10-21, RateLimiter.__call__.  time.sleep returns after  *)
(* at least the time asked for; `over` is by how much it oversleeps.       *)
Acquire ==
    /\ Len(admitted) < MaxAcquisitions
    /\ rl_result # "IndexError"
    /\ LET now == clock
           ts  == Expire(timestamps, now, period)
       IN IF Len(ts) >= max_calls
          THEN IF ts = <<>>
               THEN \* self.timestamps[0] on an empty deque
                    /\ rl_result' = "IndexError"
                    /\ timestamps' = ts
                    /\ UNCHANGED <<clock, admitted>>
               ELSE \E over \in 0..MaxOversleep :
                      LET time_to_wait == period - (now - ts[1])
                          now2 == now + time_to_wait + over
                      IN /\ now2 <= MaxClock
                         /\ timestamps' = Append(ts, now2)
                         /\ admitted' = Append(admitted, now2)
                         /\ clock' = now2
                         /\ rl_result' = "waited"
          ELSE /\ timestamps' = Append(ts, now)
               /\ admitted' = Append(admitted, now)
               /\ rl_result' = "admitted"
               /\ UNCHANGED clock
    /\ UNCHANGED <<max_calls, period>>
    /\ UNCHANGED notrl

(* r1.py:650: the limiter of the session, RateLimiter(max_calls=5,         *)
(* period=1).                                                              *)
SessionMaxCalls == 5
SessionPeriod == 1

SessionLimiter ==
    /\ max_calls = SessionMaxCalls /\ period = SessionPeriod /\ timestamps = <<>>
    /\ clock = 0 /\ admitted = <<>> /\ rl_result = "none"

(* r1.py:68-70 and 55-66: __enter__ calls the limiter once.  The result    *)
(* holds the deque it leaves, the time after the call, the times it        *)
(* recorded, and whether self.timestamps[0] raised on an empty deque.      *)
EnterRateLimiterTwice(ts, now, mc, p) ==
    LET live == Expire(ts, now, p)
    IN [raised |-> FALSE, result |-> "admitted", now |-> now,
        timestamps |-> live \o <<now, now>>, admitted |-> <<now, now>>]

EnterRateLimiter(ts, now, mc, p) ==
    LET live == Expire(ts, now, p)
    IN IF Len(live) >= mc
       THEN IF live = <<>>
            THEN [raised |-> TRUE, result |-> "IndexError", now |-> now,
                  timestamps |-> live, admitted |-> <<>>]
            ELSE LET now2 == now + (p - (now - live[1]))
                 IN [raised |-> FALSE, result |-> "waited", now |-> now2,
                     timestamps |-> Append(live, now2), admitted |-> <<now2>>]
       ELSE [raised |-> FALSE, result |-> "admitted", now |-> now,
             timestamps |-> Append(live, now), admitted |-> <<now>>]

RLIdle ==
    /\ max_calls = 0 /\ period = 1 /\ timestamps = <<>>
    /\ clock = 0 /\ admitted = <<>> /\ rl_result = "none"

-----------------------------------------------------------------------------
(* Paths.  A path is a sequence of segment names; its string is the        *)
(* segments joined by "/" behind a leading "/".  The process's working     *)
(* directory, fixed for the whole run, is /w.  The file system holds one   *)
(* symbolic link, /w/lnk -> /e.                                            *)
MaxSegs == 3

SegNames == {"w", "w2", "e", "a.py", "~t", "lnk", "..", "."}

SegChars(seg) ==
    CASE seg = "w"    -> <<"w">>
      [] seg = "w2"   -> <<"w", "2">>
      [] seg = "e"    -> <<"e">>
      [] seg = "a.py" -> <<"a", ".", "p", "y">>
      [] seg = "~t"   -> <<"~", "t">>
      [] seg = "lnk"  -> <<"l", "n", "k">>
      [] seg = ".."   -> <<".", ".">>
      [] seg = "."    -> <<".">>
      [] seg = "hi"   -> <<"h", "i">>
      [] seg = "b.png" -> <<"b", ".", "p", "n", "g">>
      [] seg = ".git" -> <<".", "g", "i", "t">>
      [] OTHER        -> <<"?">>

Cwd == <<"w">>

LinkTarget(p) == IF p = <<"w", "lnk">> THEN <<"e">> ELSE p

SeqsUpTo(S, n) == UNION {[1..k -> S] : k \in 0..n}

RawPaths == [abs : BOOLEAN, segs : SeqsUpTo(SegNames, MaxSegs)]

(* str(path): "/" for the root, else "/seg" for every segment.             *)
RECURSIVE PathStr(_)
PathStr(segs) ==
    IF segs = <<>> THEN <<>>
    ELSE <<"/">> \o SegChars(segs[1]) \o PathStr(Tail(segs))

StrOf(segs) == IF segs = <<>> THEN <<"/">> ELSE PathStr(segs)

(* str.startswith                                                          *)
StartsWith(s, prefix) ==
    Len(prefix) <= Len(s) /\ SubSeq(s, 1, Len(prefix)) = prefix

(* Path.resolve(): "." is dropped, ".." goes to the parent (the root is    *)
(* its own parent), a symbolic link is replaced by its target.             *)
RECURSIVE ResolveFrom(_, _)
ResolveFrom(done, rest) ==
    IF rest = <<>> THEN done
    ELSE LET seg == rest[1]
         IN CASE seg = "."  -> ResolveFrom(done, Tail(rest))
              [] seg = ".." ->
                   ResolveFrom(IF done = <<>> THEN <<>>
                               ELSE SubSeq(done, 1, Len(done) - 1), Tail(rest))
              [] OTHER -> ResolveFrom(LinkTarget(Append(done, seg)), Tail(rest))

(* r1.py:432-435: Path(path_str), absolute(), resolve().                   *)
ResolvedLocation(raw) ==
    ResolveFrom(<<>>, IF raw.abs THEN raw.segs ELSE Cwd \o raw.segs)

(* r1.py:429-444, normalize_path: the resolved path, or ValueError when    *)
(* its string does not start with the string of the workspace.             *)
NormalizePath(raw) ==
    LET path == ResolvedLocation(raw)
        workspace == ResolveFrom(<<>>, Cwd)
    IN IF ~StartsWith(StrOf(path), StrOf(workspace))
       THEN [ok |-> FALSE, path |-> <<>>]
       ELSE [ok |-> TRUE, path |-> path]

NPInit ==
    /\ np_input = [abs |-> FALSE, segs |-> <<>>]
    /\ np_result = [called |-> FALSE, ok |-> FALSE, path |-> <<>>]

NPIdle == NPInit

CallNormalizePath ==
    \E raw \in RawPaths :
        /\ np_input' = raw
        /\ np_result' = [called |-> TRUE, ok |-> NormalizePath(raw).ok,
                          path |-> NormalizePath(raw).path]
        /\ UNCHANGED notnp


-----------------------------------------------------------------------------
(* Text.                                                                   *)
MaxTextLen == 3
MaxSnippetLen == 2

MaxContentSize == 5000000

Symbols == {"a", "b", "B"}

BlockSize == MaxContentSize

Texts(n) == SeqsUpTo(Symbols, n)

(* len(content), in characters.                                            *)
RECURSIVE TextLen(_)
TextLen(t) ==
    IF t = <<>> THEN 0
    ELSE (IF t[1] = "B" THEN BlockSize ELSE 1) + TextLen(Tail(t))

MatchAt(c, s, i) ==
    i + Len(s) - 1 <= Len(c) /\ SubSeq(c, i, i + Len(s) - 1) = s

(* str.count: occurrences counted left to right without overlap; the      *)
(* empty string is counted once between any two characters and at both     *)
(* ends.                                                                   *)
RECURSIVE CountFrom(_, _, _)
CountFrom(c, s, i) ==
    IF i + Len(s) - 1 > Len(c) THEN 0
    ELSE IF MatchAt(c, s, i) THEN 1 + CountFrom(c, s, i + Len(s))
         ELSE CountFrom(c, s, i + 1)

StrCount(c, s) == IF s = <<>> THEN TextLen(c) + 1 ELSE CountFrom(c, s, 1)

(* str.find, 0 when there is no occurrence.                                *)
RECURSIVE FindFrom(_, _, _)
FindFrom(c, s, i) ==
    IF i + Len(s) - 1 > Len(c) THEN 0
    ELSE IF MatchAt(c, s, i) THEN i ELSE FindFrom(c, s, i + 1)

(* str.replace(old, new, 1): the leftmost occurrence is replaced.          *)
ReplaceDroppingRest(c, s, t) ==
    LET i == FindFrom(c, s, 1)
    IN IF i = 0 THEN c ELSE SubSeq(c, 1, i - 1) \o t

ReplaceKeepingOld(c, s, t) ==
    LET i == FindFrom(c, s, 1)
    IN IF i = 0 THEN c ELSE SubSeq(c, 1, i - 1) \o t \o SubSeq(c, i, Len(c))

StrReplaceFirst(c, s, t) ==
    LET i == FindFrom(c, s, 1)
    IN IF i = 0 THEN c
       ELSE SubSeq(c, 1, i - 1) \o t \o SubSeq(c, i + Len(s), Len(c))

-----------------------------------------------------------------------------
(* The file system: the files the model follows, by resolved location.     *)
PA == <<"w", "a.py">>
PT == <<"w", "~t">>
PS == <<"w2", "a.py">>

FilePaths == {PA, PT, PS}

NoFile == [exists |-> FALSE, content |-> <<>>]

FileOf(c) == [exists |-> TRUE, content |-> c]

AbsPath(segs) == [abs |-> TRUE, segs |-> segs]
RelPath(segs) == [abs |-> FALSE, segs |-> segs]

(* Messages of the conversation.  kind tells what the content string is:   *)
(*   "prompt"   system_PROMPT                                              *)
(*   "content"  "Content of file '<path>':\n\n<body>"                      *)
(*   "created"  "File operation: Created/updated file at '<path>'"         *)
(*   "edited"   "File operation: Applied diff edit to '<path>'"            *)
(*   "text"     a user message, "reply" the assistant's raw response.      *)
Msg(role, kind, path, body) ==
    [role |-> role, kind |-> kind, path |-> path, body |-> body]

SystemPrompt == Msg("system", "prompt", <<>>, <<>>)

ContentMsg(path, body) == Msg("system", "content", path, body)

(* r1.py:449-451                                                           *)
InitialHistory == <<SystemPrompt>>

(* r1.py:161-164, read_local_file: the content, or OSError.                *)
ReadLocalFile(fs, raw) ==
    LET loc == ResolvedLocation(raw)
    IN IF loc \in DOMAIN fs /\ fs[loc].exists
       THEN [ok |-> TRUE, content |-> fs[loc].content]
       ELSE [ok |-> FALSE, content |-> <<>>]

(* r1.py:185: .strip().lower() of the answer typed at a prompt.            *)
Answers == {<<" ", "Y">>, <<"n">>, <<>>}

RECURSIVE Strip(_)
Strip(s) ==
    IF s = <<>> THEN s
    ELSE IF s[1] = " " THEN Strip(Tail(s))
    ELSE IF s[Len(s)] = " " THEN Strip(SubSeq(s, 1, Len(s) - 1))
    ELSE s

Lower(s) == [i \in 1..Len(s) |-> IF s[i] = "Y" THEN "y" ELSE s[i]]

NoCall ==
    [op |-> "none", path |-> RelPath(<<>>), original |-> <<>>, new |-> <<>>,
     content |-> <<>>, pre |-> NoFile, outcome |-> "none", wrote |-> FALSE,
     updated |-> <<>>, prompted |-> FALSE, answer |-> <<>>]

(* r1.py:166-213, create_file.  The result holds the file system and the   *)
(* history it leaves, how it ended and whether open(..., "w") was reached. *)
CreateFileWritesBeforeSizeCheck(fs, hist, raw, content, require_confirmation, answer) ==
    LET norm == NormalizePath(raw)
        loc == ResolvedLocation(raw)
        wrote == norm.ok /\ loc \in DOMAIN fs
    IN [files |-> IF wrote THEN [fs EXCEPT ![loc] = FileOf(content)] ELSE fs,
        history |-> hist,
        outcome |-> IF ~norm.ok THEN "InvalidPath"
                    ELSE IF TextLen(content) > MaxContentSize THEN "ContentTooLarge"
                    ELSE "Ok",
        wrote |-> wrote, prompted |-> FALSE]

CreateFile(fs, hist, raw, content, require_confirmation, answer) ==
    LET norm == NormalizePath(raw)
        loc == ResolvedLocation(raw)
        user_confirm == IF require_confirmation THEN Lower(Strip(answer)) ELSE <<"y">>
        fail(why, asked) == [files |-> fs, history |-> hist, outcome |-> why,
                             wrote |-> FALSE, prompted |-> asked]
    IN \* r1.py:173-174
       IF \E i \in 1..Len(raw.segs) : SegChars(raw.segs[i])[1] = "~"
       THEN fail("InvalidPath", FALSE)
       \* r1.py:175
       ELSE IF ~norm.ok THEN fail("InvalidPath", FALSE)
       \* r1.py:178-179
       ELSE IF TextLen(content) > MaxContentSize THEN fail("ContentTooLarge", FALSE)
       \* r1.py:182-192
       ELSE IF user_confirm # <<"y">> /\ user_confirm # <<>>
       THEN fail("Skipped", require_confirmation)
       \* r1.py:194-196; opening a directory for writing raises OSError
       ELSE IF loc \notin DOMAIN fs THEN fail("OSError", require_confirmation)
       \* r1.py:196-210
       ELSE [files |-> [fs EXCEPT ![loc] = FileOf(content)],
             history |-> hist \o <<Msg("system", "created", loc, <<>>),
                                   ContentMsg(norm.path, content)>>,
             outcome |-> "Ok", wrote |-> TRUE, prompted |-> require_confirmation]

(* r1.py:229-261, apply_diff_edit.  create_file reports nothing back, so   *)
(* the edit is recorded as applied whatever create_file did.               *)
ApplyDiffEdit(fs, hist, raw, original_snippet, new_snippet) ==
    LET rd == ReadLocalFile(fs, raw)
        content == rd.content
        occurrences == StrCount(content, original_snippet)
        updated_content == StrReplaceFirst(content, original_snippet, new_snippet)
        cf == CreateFile(fs, hist, raw, updated_content, FALSE, <<>>)
        fail(why) == [files |-> fs, history |-> hist, outcome |-> why,
                      wrote |-> FALSE, updated |-> <<>>]
    IN IF ~rd.ok THEN fail("FileNotFound")
       ELSE IF occurrences = 0 THEN fail("SnippetNotFound")
       ELSE IF occurrences > 1 THEN fail("AmbiguousSnippet")
       ELSE [files |-> cf.files,
             history |-> Append(cf.history,
                                Msg("system", "edited", ResolvedLocation(raw), <<>>)),
             outcome |-> "Applied", wrote |-> cf.wrote, updated |-> updated_content]

-----------------------------------------------------------------------------
(* SpecEdit: apply_diff_edit on a file of any content with any snippets,   *)
(* followed by the inverse edit, as main calls it (r1.py:694-695) with an  *)
(* absolute path that stream_openai_response has normalized.               *)
EditPaths == {PA, PT}

EditInit ==
    /\ \E c \in Texts(MaxTextLen) : \E x \in BOOLEAN :
         files = [p \in FilePaths |->
                    IF p \in EditPaths /\ x THEN FileOf(c)
                    ELSE IF p = PS THEN FileOf(<<"a">>) ELSE NoFile]
    /\ conversation_history = InitialHistory
    /\ pc = "edit"
    /\ last = NoCall
    /\ first = NoCall

(* The raw text of a response (final_content), and the object             *)
(* stream_openai_response returns: how the request ended and the          *)
(* assistant_reply of the AssistantResponse.  An error message is the      *)
(* text before the exception's own message, and that message.             *)
FinalContent == <<"final_content">>

NoResponse == [outcome |-> "none", assistant_reply |-> <<>>]

ErrorResponse(outcome, prefix) ==
    [outcome |-> outcome, assistant_reply |-> <<prefix, "str(e)">>]

MainIdle ==
    /\ pending_creates = <<>>
    /\ pending_edits = <<>>
    /\ valid_files = {}
    /\ requests = 0
    /\ adds = 0
    /\ response = NoResponse
    /\ pre_log = <<>>
    /\ rebuilt = [log |-> <<>>, user |-> "none"]

FSIdle ==
    /\ files = [p \in FilePaths |-> NoFile]
    /\ conversation_history = InitialHistory
    /\ pc = "idle"
    /\ last = NoCall
    /\ first = NoCall

EditCall(p, s, t) ==
    LET r == ApplyDiffEdit(files, conversation_history, AbsPath(p), s, t)
    IN /\ files' = r.files
       /\ conversation_history' = r.history
       /\ last' = [op |-> "edit", path |-> AbsPath(p), original |-> s, new |-> t,
                   content |-> <<>>, pre |-> files[p], outcome |-> r.outcome,
                   wrote |-> r.wrote, updated |-> r.updated,
                   prompted |-> FALSE, answer |-> <<>>]

Edit ==
    /\ pc = "edit"
    /\ \E p \in EditPaths : \E s \in Texts(MaxSnippetLen) : \E t \in Texts(MaxSnippetLen) :
         EditCall(p, s, t)
    /\ first' = last'
    /\ pc' = "edited"
    /\ UNCHANGED notfs

InverseEdit ==
    /\ pc = "edited"
    /\ EditCall(last.path.segs, last.new, last.original)
    /\ pc' = "inverted"
    /\ UNCHANGED first
    /\ UNCHANGED notfs


-----------------------------------------------------------------------------
(* The session: main (r1.py:642-699) and what it calls.                    *)
MaxInputs == 2

MaxFiles == 1000
MaxFileSize == 5000000
MaxTotalSize == 50000000
PeekSize == 1024

UserMsg(u) == Msg("user", "text", <<>>, <<u>>)

AssistantMsg == Msg("assistant", "reply", <<>>, FinalContent)

(* "Content of file '<path>'" in msg["content"]                            *)
HasMarker(msg, path) == msg.kind = "content" /\ msg.path = path

MarkerPresent(hist, path) == \E i \in 1..Len(hist) : HasMarker(hist[i], path)

(* r1.py:477: a system message holding "Content of file '".                *)
IsFileContext(msg) == msg.role = "system" /\ msg.kind = "content"

IsUserOrAssistant(msg) == msg.role \in {"user", "assistant"}

(* r1.py:472-489: cleaned_history.                                         *)
RebuildKeepingUnpaired(hist, u) ==
    <<hist[1]>> \o SelectSeq(Tail(hist), IsFileContext)
        \o SelectSeq(Tail(hist), IsUserOrAssistant) \o <<UserMsg(u)>>

RebuildTrimmingEven(hist, u) ==
    LET all_pairs == SelectSeq(Tail(hist), IsUserOrAssistant)
    IN <<hist[1]>> \o SelectSeq(Tail(hist), IsFileContext)
         \o (IF Len(all_pairs) % 2 = 0 /\ all_pairs # <<>>
             THEN SubSeq(all_pairs, 1, Len(all_pairs) - 1)
             ELSE all_pairs)
         \o <<UserMsg(u)>>

Rebuild(hist, u) ==
    LET system_msgs == <<hist[1]>>
        file_context == SelectSeq(Tail(hist), IsFileContext)
        all_pairs == SelectSeq(Tail(hist), IsUserOrAssistant)
        user_assistant_pairs ==
            IF Len(all_pairs) % 2 # 0
            THEN SubSeq(all_pairs, 1, Len(all_pairs) - 1)
            ELSE all_pairs
    IN system_msgs \o file_context \o user_assistant_pairs \o <<UserMsg(u)>>

(* What the user types.  A message is the sequence of its words; a word    *)
(* is written as a path.                                                   *)
UserInputs == {"hi", "fix"}

UserWords(u) ==
    CASE u = "fix" -> <<RelPath(<<"hi">>), RelPath(<<"a.py">>), AbsPath(PA),
                        RelPath(<<"..", "w2", "a.py">>), AbsPath(<<"e", "a.py">>)>>
      [] OTHER     -> <<RelPath(<<"hi">>)>>

(* r1.py:458-461: the word holds a recognized extension or a "/".          *)
HasRecognizedExtension(seg) ==
    LET c == SegChars(seg)
    IN \E i \in 1..(Len(c) - 2) : SubSeq(c, i, i + 2) = <<".", "p", "y">>

LooksLikePath(word) ==
    \/ word.abs
    \/ Len(word.segs) > 1
    \/ \E i \in 1..Len(word.segs) : HasRecognizedExtension(word.segs[i])

(* r1.py:457-468, guess_files_in_message.                                  *)
RECURSIVE GuessFilesInMessage(_)
GuessFilesInMessage(words) ==
    IF words = <<>> THEN <<>>
    ELSE LET word == words[1]
             rest == GuessFilesInMessage(Tail(words))
         IN IF LooksLikePath(word) /\ NormalizePath(word).ok
            THEN <<NormalizePath(word).path>> \o rest
            ELSE rest

(* r1.py:498-511: read every guessed file and add it to the history when   *)
(* no message marks it.  st = [history, valid_files].                      *)
RECURSIVE DetectFiles(_, _)
DetectFiles(st, paths) ==
    IF paths = <<>> THEN st
    ELSE LET path == paths[1]
             rd == ReadLocalFile(files, AbsPath(path))
         IN IF ~rd.ok THEN DetectFiles(st, Tail(paths))
            ELSE DetectFiles(
                   [history |-> IF MarkerPresent(st.history, path) THEN st.history
                                ELSE Append(st.history, ContentMsg(path, rd.content)),
                    valid_files |-> st.valid_files \cup {path}],
                   Tail(paths))

(* r1.py:414-427, ensure_file_in_context.                                  *)
EnsureFileInContext(hist, path) ==
    LET rd == ReadLocalFile(files, AbsPath(path))
    IN IF ~rd.ok THEN [ok |-> FALSE, history |-> hist]
       ELSE [ok |-> TRUE,
             history |-> IF MarkerPresent(hist, path) THEN hist
                         ELSE Append(hist, ContentMsg(path, rd.content))]

(* r1.py:586-597: the edits whose path normalizes and whose file is known, *)
(* each with its path made absolute.  st = [history, edits].               *)
RECURSIVE FilterEditsStoppingAtInvalid(_, _, _)
FilterEditsStoppingAtInvalid(st, edits, valid) ==
    IF edits = <<>> THEN st
    ELSE LET edit == edits[1]
             norm == NormalizePath(edit.path)
             ens == EnsureFileInContext(st.history, norm.path)
             kept == [edit EXCEPT !.path = AbsPath(norm.path)]
         IN IF ~norm.ok \/ (norm.path \notin valid /\ ~ens.ok) THEN st
            ELSE FilterEditsStoppingAtInvalid(
                   [history |-> IF norm.path \in valid THEN st.history ELSE ens.history,
                    edits |-> Append(st.edits, kept)],
                   Tail(edits), valid)

RECURSIVE FilterEdits(_, _, _)
FilterEdits(st, edits, valid) ==
    IF edits = <<>> THEN st
    ELSE LET edit == edits[1]
             norm == NormalizePath(edit.path)
             ens == EnsureFileInContext(st.history, norm.path)
             kept == [edit EXCEPT !.path = AbsPath(norm.path)]
         IN IF ~norm.ok THEN FilterEdits(st, Tail(edits), valid)
            ELSE IF norm.path \in valid
            THEN FilterEdits([st EXCEPT !.edits = Append(@, kept)], Tail(edits), valid)
            ELSE IF ens.ok
            THEN FilterEdits([history |-> ens.history, edits |-> Append(st.edits, kept)],
                             Tail(edits), valid)
            ELSE FilterEdits([st EXCEPT !.history = ens.history], Tail(edits), valid)

(* What the model may answer: the files_to_create and files_to_edit of    *)
(* a response.                                                             *)
Responses == {"talk", "create", "creates", "edits", "both"}

FilesToCreate(r) ==
    CASE r = "create"  -> <<[path |-> RelPath(<<"a.py">>), content |-> <<"b">>]>>
      [] r = "creates" -> <<[path |-> RelPath(<<"a.py">>), content |-> <<"B", "a">>],
                            [path |-> RelPath(<<"~t">>), content |-> <<"b">>],
                            [path |-> AbsPath(<<"e", "a.py">>), content |-> <<"b">>],
                            [path |-> RelPath(<<"..", "w2", "a.py">>), content |-> <<"b">>]>>
      [] r = "both"    -> <<[path |-> RelPath(<<"a.py">>), content |-> <<"a", "b">>]>>
      [] OTHER         -> <<>>

FilesToEdit(r) ==
    CASE r = "edits" -> <<[path |-> RelPath(<<"a.py">>), original |-> <<"a">>, new |-> <<"b">>],
                          [path |-> RelPath(<<"a.py">>), original |-> <<"b">>, new |-> <<"B">>],
                          [path |-> AbsPath(<<"e", "a.py">>), original |-> <<"a">>, new |-> <<"b">>],
                          [path |-> RelPath(<<"a.py">>), original |-> <<"b">>, new |-> <<"a", "a">>],
                          [path |-> RelPath(<<"~t">>), original |-> <<"a">>, new |-> <<"b">>]>>
      [] r = "both"  -> <<[path |-> RelPath(<<"a.py">>), original |-> <<"b">>, new |-> <<"a">>]>>
      [] OTHER       -> <<>>

AddPaths ==
    {RelPath(<<"a.py">>), RelPath(<<"~t">>), RelPath(<<".">>),
     RelPath(<<"..", "w2">>), AbsPath(<<"e">>)}

(* os.path.isdir, and the files os.walk finds in a directory, in the order *)
(* of its listing.  The directories hold no subdirectory with files.       *)
Dirs == {<<"w">>, <<"w2">>}

FileListing == <<PA, PT, PS>>


(* r1.py:287-302 and 303-326, as far as the names of the model go.         *)
ExcludedName(name) == SegChars(name)[1] = "." \/ name \in {".git", "node_modules", "dist", "build"}

ExcludedExtension(name) ==
    LET c == SegChars(name)
    IN \E i \in 1..(Len(c) - 3) : SubSeq(c, i, Len(c)) \in {<<".", "p", "n", "g">>, <<".", "l", "o", "g">>}

(* r1.py:335-342: os.walk goes down from dir and does not enter a          *)
(* directory whose name is hidden or excluded.                             *)
InDir(dir, path) ==
    /\ Len(path) > Len(dir)
    /\ SubSeq(path, 1, Len(dir)) = dir
    /\ \A i \in (Len(dir) + 1)..(Len(path) - 1) : ~ExcludedName(path[i])

Walk(listing, fs, dir) ==
    LET present(path) == path \in DOMAIN fs /\ fs[path].exists /\ InDir(dir, path)
    IN SelectSeq(listing, present)

(* r1.py:402-412, is_binary_file: a null byte among the first peek_size    *)
(* characters.                                                             *)
RECURSIVE HasNullWithin(_, _)
HasNullWithin(c, n) ==
    IF c = <<>> \/ n <= 0 THEN FALSE
    ELSE IF c[1] = "NUL" THEN TRUE
    ELSE HasNullWithin(Tail(c), n - (IF c[1] = "B" THEN BlockSize ELSE 1))

IsBinaryFile(fs, path) ==
    ~(path \in DOMAIN fs /\ fs[path].exists) \/ HasNullWithin(fs[path].content, PeekSize)

(* r1.py:344-388: one file of the walk.                                    *)
(* st = [history, added, skipped, total_files_processed, total_size].      *)
ScanFileWithoutTotalCheck(st, fs, full_path) ==
    LET name == full_path[Len(full_path)]
        skip == [st EXCEPT !.skipped = Append(@, full_path)]
        file_size == TextLen(fs[full_path].content)
    IN IF st.total_files_processed >= MaxFiles \/ st.total_size >= MaxTotalSize
       THEN st
       ELSE IF ExcludedName(name) \/ ExcludedExtension(name) THEN skip
       ELSE IF file_size > MaxFileSize \/ IsBinaryFile(fs, full_path) THEN skip
       ELSE [history |-> Append(st.history, ContentMsg(full_path, fs[full_path].content)),
             added |-> Append(st.added, full_path),
             skipped |-> st.skipped,
             total_files_processed |-> st.total_files_processed + 1,
             total_size |-> st.total_size + file_size]

ScanFile(st, fs, full_path) ==
    LET name == full_path[Len(full_path)]
        skip == [st EXCEPT !.skipped = Append(@, full_path)]
        file_size == TextLen(fs[full_path].content)
        norm == NormalizePath(AbsPath(full_path))
    IN IF st.total_files_processed >= MaxFiles \/ st.total_size >= MaxTotalSize
       THEN st
       ELSE IF ExcludedName(name) THEN skip
       ELSE IF ExcludedExtension(name) THEN skip
       ELSE IF ~fs[full_path].exists THEN skip
       ELSE IF file_size > MaxFileSize THEN skip
       ELSE IF st.total_size + file_size > MaxTotalSize THEN skip
       ELSE IF IsBinaryFile(fs, full_path) THEN skip
       ELSE IF ~norm.ok THEN skip
       ELSE [history |-> Append(st.history, ContentMsg(norm.path, fs[full_path].content)),
             added |-> Append(st.added, norm.path),
             skipped |-> st.skipped,
             total_files_processed |-> st.total_files_processed + 1,
             total_size |-> st.total_size + file_size]

RECURSIVE ScanFiles(_, _, _)
ScanFiles(st, fs, paths) ==
    IF paths = <<>> THEN st
    ELSE ScanFiles(ScanFile(st, fs, paths[1]), fs, Tail(paths))

(* r1.py:285-400, add_directory_to_conversation.                           *)
AddDirectoryToConversation(hist, fs, dir) ==
    ScanFiles([history |-> hist, added |-> <<>>, skipped |-> <<>>,
               total_files_processed |-> 0, total_size |-> 0],
              fs, Walk(FileListing, fs, dir))

-----------------------------------------------------------------------------
(* SpecScan: add_directory_to_conversation followed file by file, on       *)
(* three directories of the workspace:                                     *)
(*   /w/m  one file more than max_files, one character each;               *)
(*   /w/g  nine files of max_file_size, one above it, small ones, a        *)
(*         binary one and one more of max_file_size;                       *)
(*   /w/r  a.py, b.png (binary) and .git/config.                           *)
ScanRoots == {<<"w", "m">>, <<"w", "g">>, <<"w", "r">>}

Numbered(dir, contents) ==
    [i \in 1..Len(contents) |->
        [path |-> Append(dir, ToString(i)), content |-> contents[i]]]

Tree(dir) ==
    CASE dir = <<"w", "m">> -> Numbered(dir, [i \in 1..(MaxFiles + 1) |-> <<"a">>])
      [] dir = <<"w", "g">> ->
           Numbered(dir, [i \in 1..(MaxTotalSize \div MaxFileSize - 1) |-> <<"B">>]
                           \o << <<"B", "a">>, <<"a">>, <<"NUL", "a">>, <<"a">>,
                                 <<"B">>, <<"a">> >>)
      [] OTHER ->
           << [path |-> Append(dir, "a.py"), content |-> <<"a", "a">>],
              [path |-> Append(dir, "b.png"), content |-> <<"NUL", "b">>],
              [path |-> dir \o <<".git", "config">>, content |-> <<"a">>] >>

TreeListing(dir) == [i \in 1..Len(Tree(dir)) |-> Tree(dir)[i].path]

TreeFiles(dir) ==
    LET t == Tree(dir)
    IN [p \in {t[i].path : i \in 1..Len(t)} |->
          FileOf(t[CHOOSE i \in 1..Len(t) : t[i].path = p].content)]

ScanIdle ==
    scan = [dir |-> <<>>, todo |-> <<>>, added |-> <<>>, skipped |-> <<>>,
            total_files_processed |-> 0, total_size |-> 0]

(* r1.py:327-333: the locals before the walk.                              *)
ScanInit ==
    /\ \E dir \in ScanRoots :
         /\ files = TreeFiles(dir)
         /\ scan = [dir |-> dir, todo |-> Walk(TreeListing(dir), TreeFiles(dir), dir),
                    added |-> <<>>, skipped |-> <<>>,
                    total_files_processed |-> 0, total_size |-> 0]
    /\ conversation_history = InitialHistory
    /\ pc = "scanning"
    /\ last = NoCall
    /\ first = NoCall

AtScanLimit == scan.total_files_processed >= MaxFiles \/ scan.total_size >= MaxTotalSize

(* r1.py:344-388: the next file of the walk.                               *)
ScanStep ==
    /\ pc = "scanning"
    /\ scan.todo # <<>>
    /\ ~AtScanLimit
    /\ LET r == ScanFile([history |-> conversation_history, added |-> scan.added,
                          skipped |-> scan.skipped,
                          total_files_processed |-> scan.total_files_processed,
                          total_size |-> scan.total_size],
                         files, scan.todo[1])
       IN /\ conversation_history' = r.history
          /\ scan' = [dir |-> scan.dir, todo |-> Tail(scan.todo),
                      added |-> r.added, skipped |-> r.skipped,
                      total_files_processed |-> r.total_files_processed,
                      total_size |-> r.total_size]
    /\ UNCHANGED <<files, pc, last, first>>
    /\ UNCHANGED notscan

(* r1.py:336-338, 345-346 and 390-400: the walk ends when nothing is left  *)
(* or a limit is reached, and the lists are reported.                      *)
ScanReport ==
    /\ pc = "scanning"
    /\ scan.todo = <<>> \/ AtScanLimit
    /\ pc' = "scanned"
    /\ UNCHANGED <<files, conversation_history, last, first, scan>>
    /\ UNCHANGED notscan

-----------------------------------------------------------------------------
(* The actions of the session.                                             *)
MainInit ==
    /\ \E xa \in BOOLEAN :
         files = [p \in FilePaths |->
                    IF p = PA THEN (IF xa THEN FileOf(<<"a", "b", "a">>) ELSE NoFile)
                    ELSE FileOf(<<"a">>)]
    /\ conversation_history = InitialHistory
    /\ pc = "prompt"
    /\ last = NoCall
    /\ first = NoCall
    /\ MainIdle

(* r1.py:263-283, try_handle_add_command.  The ValueError of               *)
(* normalize_path is not an OSError: nothing catches it and main ends.     *)
AddCommand ==
    /\ pc = "prompt"
    /\ adds + requests < MaxInputs
    /\ adds' = adds + 1
    /\ \E raw \in AddPaths :
         LET norm == NormalizePath(raw)
             rd == ReadLocalFile(files, raw)
         IN IF ~norm.ok
            THEN pc' = "crashed" /\ UNCHANGED conversation_history
            ELSE /\ pc' = pc
                 /\ conversation_history' =
                      IF norm.path \in Dirs
                      THEN AddDirectoryToConversation(conversation_history, files,
                                                      norm.path).history
                      ELSE IF rd.ok
                      THEN Append(conversation_history, ContentMsg(norm.path, rd.content))
                      ELSE conversation_history
    /\ UNCHANGED <<files, last, first, pending_creates, pending_edits, valid_files,
                   requests, response, pre_log, rebuilt>>
    /\ UNCHANGED notmain

(* r1.py:674-676                                                           *)
Quit ==
    /\ pc = "prompt"
    /\ pc' = "finished"
    /\ UNCHANGED <<files, conversation_history, last, first, mainvars>>
    /\ UNCHANGED notmain

(* r1.py:681-682 and 470-511: the limiter is entered, the history is       *)
(* rebuilt around the new user message, the files the message names are    *)
(* read, and the request is sent.  The requests of a session are taken to  *)
(* follow each other within the same reading of the clock.  An IndexError  *)
(* of the limiter would leave through main.                                *)
Request ==
    /\ pc = "prompt"
    /\ adds + requests < MaxInputs
    /\ LET acq == EnterRateLimiter(timestamps, clock, max_calls, period)
       IN /\ timestamps' = acq.timestamps
          /\ clock' = acq.now
          /\ rl_result' = acq.result
          /\ admitted' = admitted \o acq.admitted
          /\ IF acq.raised
             THEN /\ pc' = "crashed"
                  /\ UNCHANGED <<pre_log, rebuilt, conversation_history, valid_files>>
             ELSE /\ pc' = "streaming"
                  /\ \E u \in UserInputs :
                       LET cleaned == Rebuild(conversation_history, u)
                           det == DetectFiles([history |-> cleaned, valid_files |-> {}],
                                              GuessFilesInMessage(UserWords(u)))
                       IN /\ pre_log' = conversation_history
                          /\ rebuilt' = [log |-> cleaned, user |-> u]
                          /\ conversation_history' = det.history
                          /\ valid_files' = det.valid_files
    /\ requests' = requests + 1
    /\ last' = NoCall
    /\ UNCHANGED <<files, first, pending_creates, pending_edits, adds, response>>
    /\ UNCHANGED <<max_calls, period, npvars, scan>>

(* r1.py:617-623: the call or the stream raises.                           *)
ApiError ==
    /\ pc = "streaming"
    /\ pc' = "prompt"
    /\ response' = ErrorResponse("ApiError", "DeepSeek API error: ")
    /\ valid_files' = {}
    /\ UNCHANGED <<files, conversation_history, last, first, pending_creates,
                   pending_edits, requests, adds, pre_log, rebuilt>>
    /\ UNCHANGED notmain

(* r1.py:548-557: the response is not JSON.                                *)
ParseFailure ==
    /\ pc = "streaming"
    /\ pc' = "prompt"
    /\ response' = ErrorResponse("ParseFailure",
                                 "Failed to parse JSON response from assistant: ")
    /\ valid_files' = {}
    /\ UNCHANGED <<files, conversation_history, last, first, pending_creates,
                   pending_edits, requests, adds, pre_log, rebuilt>>
    /\ UNCHANGED notmain

(* r1.py:582-615 and 684-688: a parsed response.  When it does not fit     *)
(* AssistantResponse (valid = FALSE) the edits have been looked at, and    *)
(* nothing else happens.                                                   *)
Reply ==
    /\ pc = "streaming"
    /\ \E r \in Responses : \E valid \in BOOLEAN :
         LET fe == FilterEdits([history |-> conversation_history, edits |-> <<>>],
                               FilesToEdit(r), valid_files)
         IN IF ~valid
            THEN /\ conversation_history' = fe.history
                 /\ pc' = "prompt"
                 /\ response' = ErrorResponse("SchemaError", "DeepSeek API error: ")
                 /\ UNCHANGED <<pending_creates, pending_edits>>
            ELSE /\ conversation_history' = Append(fe.history, AssistantMsg)
                 /\ response' = [outcome |-> "Reply",
                                  assistant_reply |-> <<"assistant_reply">>]
                 /\ pending_creates' = FilesToCreate(r)
                 /\ pending_edits' = fe.edits
                 /\ pc' = IF FilesToCreate(r) # <<>> THEN "creating"
                          ELSE IF fe.edits # <<>> THEN "confirm_edits"
                          ELSE "prompt"
    /\ valid_files' = {}
    /\ UNCHANGED <<files, last, first, requests, adds, pre_log, rebuilt>>
    /\ UNCHANGED notmain

(* r1.py:685-686: create_file for the next file of the response, with the  *)
(* answer the user types at its prompt.                                    *)
CreateStep ==
    /\ pc = "creating"
    /\ \E answer \in Answers :
         LET item == pending_creates[1]
             r == CreateFile(files, conversation_history, item.path, item.content,
                             TRUE, answer)
             loc == ResolvedLocation(item.path)
         IN /\ files' = r.files
            /\ conversation_history' = r.history
            /\ last' = [op |-> "create", path |-> item.path, original |-> <<>>,
                        new |-> <<>>, content |-> item.content,
                        pre |-> IF loc \in FilePaths THEN files[loc] ELSE NoFile,
                        outcome |-> r.outcome, wrote |-> r.wrote, updated |-> <<>>,
                        prompted |-> r.prompted,
                        answer |-> IF r.prompted THEN answer ELSE <<>>]
    /\ pending_creates' = Tail(pending_creates)
    /\ pc' = IF Tail(pending_creates) # <<>> THEN "creating"
             ELSE IF pending_edits # <<>> THEN "confirm_edits"
             ELSE "prompt"
    /\ UNCHANGED <<first, pending_edits, valid_files, requests, adds, response,
                   pre_log, rebuilt>>
    /\ UNCHANGED notmain

(* r1.py:688-697: the edits are applied when the answer is 'y'.            *)
ConfirmEdits ==
    /\ pc = "confirm_edits"
    /\ \E answer \in Answers :
         /\ last' = [NoCall EXCEPT !.op = "confirm", !.prompted = TRUE,
                                    !.answer = answer]
         /\ IF Lower(Strip(answer)) = <<"y">>
            THEN pc' = "editing" /\ UNCHANGED pending_edits
            ELSE pc' = "prompt" /\ pending_edits' = <<>>
    /\ UNCHANGED <<files, conversation_history, first, pending_creates,
                   valid_files, requests, adds, response, pre_log, rebuilt>>
    /\ UNCHANGED notmain

(* r1.py:694-695: apply_diff_edit for the next edit.                       *)
EditStep ==
    /\ pc = "editing"
    /\ LET edit == pending_edits[1]
       IN EditCall(edit.path.segs, edit.original, edit.new)
    /\ pending_edits' = Tail(pending_edits)
    /\ pc' = IF Tail(pending_edits) # <<>> THEN "editing" ELSE "prompt"
    /\ UNCHANGED <<first, pending_creates, valid_files, requests, adds,
                   response, pre_log, rebuilt>>
    /\ UNCHANGED notmain

(* Ctrl-C.  At the "You>" prompt main catches it and ends (r1.py:667-669); *)
(* anywhere else KeyboardInterrupt is no Exception, nothing catches it and *)
(* the process ends.                                                       *)
Interrupt ==
    /\ pc \in {"prompt", "streaming", "creating", "confirm_edits"}
    /\ pc' = IF pc = "prompt" THEN "finished" ELSE "crashed"
    /\ UNCHANGED <<files, conversation_history, last, first, mainvars>>
    /\ UNCHANGED notmain

MainNext ==
    \/ AddCommand \/ Quit \/ Request \/ ApiError \/ ParseFailure \/ Reply
    \/ CreateStep \/ ConfirmEdits \/ EditStep \/ Interrupt

InitMain == MainInit /\ SessionLimiter /\ NPIdle /\ ScanIdle

Spec == InitMain /\ [][MainNext]_vars

-----------------------------------------------------------------------------
RLNext == Tick \/ Acquire

InitRL == RLInit /\ NPIdle /\ FSIdle /\ MainIdle /\ ScanIdle

SpecRL == InitRL /\ [][RLNext]_vars

NPNext == CallNormalizePath

InitPath == NPInit /\ RLIdle /\ FSIdle /\ MainIdle /\ ScanIdle

SpecPath == InitPath /\ [][NPNext]_vars

EditNext == Edit \/ InverseEdit

InitEdit == EditInit /\ RLIdle /\ NPIdle /\ MainIdle /\ ScanIdle

ScanNext == ScanStep \/ ScanReport

InitScan == ScanInit /\ RLIdle /\ NPIdle /\ MainIdle

SpecScan == InitScan /\ [][ScanNext]_vars

-----------------------------------------------------------------------------
(* SpecLog: the operations on conversation_history, over a long session.   *)
(* A request is taken as one step, answered (the rebuild, the detection    *)
(* and the assistant message of r1.py:602-605) or failed (the rebuild and   *)
(* the detection only); the user types message k when the log holds k - 1  *)
(* exchanges, and so types it again after a request that failed.           *)
(* trim_conversation_history (r1.py:625-636) is a step of its own: main    *)
(* never calls it.                                                         *)
MaxPairs == 10

MaxLogRequests == MaxPairs + 1

MaxLogAdds == 1

(* r1.py:625-636, trim_conversation_history.                               *)
IsSystem(msg) == msg.role = "system"

IsNotSystem(msg) == msg.role # "system"

TrimOthersFirst(hist) ==
    LET other_msgs == SelectSeq(hist, IsNotSystem)
    IN (IF Len(other_msgs) > MaxPairs * 2
        THEN SubSeq(other_msgs, Len(other_msgs) - MaxPairs * 2 + 1, Len(other_msgs))
        ELSE other_msgs) \o SelectSeq(hist, IsSystem)

TrimConversationHistory(hist) ==
    LET system_msgs == SelectSeq(hist, IsSystem)
        other_msgs == SelectSeq(hist, IsNotSystem)
    IN system_msgs \o
         (IF Len(other_msgs) > MaxPairs * 2
          THEN SubSeq(other_msgs, Len(other_msgs) - MaxPairs * 2 + 1, Len(other_msgs))
          ELSE other_msgs)

LogInit ==
    /\ files = [p \in FilePaths |-> NoFile]
    /\ conversation_history = InitialHistory
    /\ pc = "log"
    /\ last = NoCall
    /\ first = NoCall
    /\ MainIdle

NextUserInput ==
    ToString(Len(SelectSeq(conversation_history, IsUserOrAssistant)) \div 2 + 1)

(* r1.py:470-511 and, when the response is accepted, 599-607.              *)
LogRequest ==
    /\ requests < MaxLogRequests
    /\ \E answered \in BOOLEAN :
         LET u == NextUserInput
             cleaned == Rebuild(conversation_history, u)
             det == DetectFiles([history |-> cleaned, valid_files |-> {}],
                                GuessFilesInMessage(UserWords(u)))
         IN /\ pre_log' = conversation_history
            /\ rebuilt' = [log |-> cleaned, user |-> u]
            /\ conversation_history' =
                  IF answered THEN Append(det.history, AssistantMsg) ELSE det.history
            /\ pc' = IF answered THEN "answered" ELSE "failed"
    /\ requests' = requests + 1
    /\ UNCHANGED <<files, last, first, pending_creates, pending_edits, valid_files,
                   adds, response>>
    /\ UNCHANGED notmain

(* r1.py:275-278: /add appends the content of a file.                      *)
LogAddFile ==
    /\ adds < MaxLogAdds
    /\ adds' = adds + 1
    /\ conversation_history' = Append(conversation_history, ContentMsg(PA, <<"a">>))
    /\ pc' = "added"
    /\ UNCHANGED <<files, last, first, pending_creates, pending_edits, valid_files,
                   requests, response, pre_log, rebuilt>>
    /\ UNCHANGED notmain

(* r1.py:201-204 and 247-250: a file operation is recorded.                *)
LogRecord ==
    /\ adds < MaxLogAdds
    /\ adds' = adds + 1
    /\ \E kind \in {"created", "edited"} :
         conversation_history' = Append(conversation_history, Msg("system", kind, PA, <<>>))
    /\ pc' = "recorded"
    /\ UNCHANGED <<files, last, first, pending_creates, pending_edits, valid_files,
                   requests, response, pre_log, rebuilt>>
    /\ UNCHANGED notmain

LogTrim ==
    /\ pc # "trimmed"
    /\ pre_log' = conversation_history
    /\ conversation_history' = TrimConversationHistory(conversation_history)
    /\ pc' = "trimmed"
    /\ UNCHANGED <<files, last, first, pending_creates, pending_edits, valid_files,
                   requests, adds, response, rebuilt>>
    /\ UNCHANGED notmain

LogNext == LogRequest \/ LogAddFile \/ LogRecord \/ LogTrim

InitLog == LogInit /\ RLIdle /\ NPIdle /\ ScanIdle

SpecLog == InitLog /\ [][LogNext]_vars

SpecEdit == InitEdit /\ [][EditNext]_vars

-----------------------------------------------------------------------------
(* C6: with max_calls >= 1, no more than max_calls acquisitions are        *)
(* admitted within any rolling window of length period: for every admitted *)
(* time t, at most max_calls admissions lie in the window (t - period, t]. *)
AdmittedInWindow(t) ==
    Cardinality({i \in 1..Len(admitted) : admitted[i] <= t /\ t - admitted[i] < period})

C6_AtMostMaxCallsPerWindow ==
    max_calls >= 1 =>
        \A k \in 1..Len(admitted) : AdmittedInWindow(admitted[k]) <= max_calls

(* C7: the window never holds more than max_calls timestamps whose age is  *)
(* within the period (age strictly below the period, the reading that      *)
(* asks least of the code).                                                *)
LiveEntries ==
    Cardinality({i \in 1..Len(timestamps) : clock - timestamps[i] < period})

C7_WindowHoldsAtMostMaxCalls ==
    max_calls >= 1 => LiveEntries <= max_calls

(* C4: a path whose resolved location is not inside the workspace tree     *)
(* (the workspace directory itself or something below it) fails with       *)
(* InvalidPath and returns no canonical path.                              *)
InWorkspaceTree(segs) ==
    Len(segs) >= Len(Cwd) /\ SubSeq(segs, 1, Len(Cwd)) = Cwd

C4_OutsideWorkspaceRejected ==
    np_result.called =>
        (~InWorkspaceTree(ResolvedLocation(np_input)) => ~np_result.ok)

-----------------------------------------------------------------------------
(* The start positions at which s occurs in c, overlapping or not.         *)
Positions(c, s) == {i \in 1..(Len(c) + 1) : MatchAt(c, s, i)}

EditDone == last.op = "edit" /\ last.pre.exists

EditTarget == ResolvedLocation(last.path)

(* C1: an edit whose snippet occurs at no position of the file fails as    *)
(* SnippetNotFound, one whose snippet occurs at two or more positions      *)
(* fails as AmbiguousSnippet; either way nothing is written and the file   *)
(* keeps its content.                                                      *)
C1_ZeroOrManyOccurrencesRejected ==
    EditDone =>
        LET n == Cardinality(Positions(last.pre.content, last.original))
        IN /\ n = 0 => /\ last.outcome = "SnippetNotFound"
                       /\ ~last.wrote
                       /\ files[EditTarget] = last.pre
           /\ n >= 2 => /\ last.outcome = "AmbiguousSnippet"
                        /\ ~last.wrote
                        /\ files[EditTarget] = last.pre

(* C2: when the snippet occurs at exactly one position i of the file's     *)
(* content C, the edit is applied and its result is C[1..i-1], the new     *)
(* snippet, and C from the end of the occurrence on, nothing else changed; *)
(* that result is what create_file is given and what the file holds when   *)
(* create_file writes.                                                     *)
C2_SingleOccurrenceReplaced ==
    EditDone =>
        \A i \in 1..(Len(last.pre.content) + 1) :
            Positions(last.pre.content, last.original) = {i} =>
                LET c == last.pre.content
                    expected == SubSeq(c, 1, i - 1) \o last.new
                                  \o SubSeq(c, i + Len(last.original), Len(c))
                IN /\ last.outcome = "Applied"
                   /\ last.updated = expected
                   /\ files[EditTarget] =
                        IF last.wrote THEN FileOf(expected) ELSE last.pre

C2_Witness ==
    /\ EditDone
    /\ last.pre.content = <<"a", "b", "a">>
    /\ last.original = <<"b">>
    /\ last.new = <<"a", "a">>
    /\ last.wrote
    /\ files[PA] = FileOf(<<"a", "a", "a", "a">>)

(* C3 as stated: when S occurs exactly once in C, the edit S -> T followed *)
(* by the inverse edit T -> S on the result succeeds and restores C.       *)
RoundTripDone ==
    /\ pc = "inverted"
    /\ first.pre.exists
    /\ first.wrote
    /\ Cardinality(Positions(first.pre.content, first.original)) = 1

C3_RoundTripRestores ==
    RoundTripDone =>
        /\ last.outcome = "Applied"
        /\ last.updated = first.pre.content

(* C3 amended: when moreover T occurs at exactly one position of the       *)
(* edited content, the inverse edit is applied and its result is C; the    *)
(* file holds C again when C is within create_file's size ceiling.         *)
C3_RoundTripRestoresWhenNewIsUnique ==
    (RoundTripDone /\ Cardinality(Positions(first.updated, first.new)) = 1) =>
        /\ last.outcome = "Applied"
        /\ last.updated = first.pre.content
        /\ TextLen(first.pre.content) <= MaxContentSize =>
               last.wrote /\ files[EditTarget] = first.pre

C3_Witness ==
    /\ RoundTripDone
    /\ Cardinality(Positions(first.updated, first.new)) = 1
    /\ first.pre.content = <<"a", "b", "a">>
    /\ first.original = <<"b", "a">>
    /\ first.new = <<"b", "b">>
    /\ last.wrote
    /\ files[PA] = first.pre

-----------------------------------------------------------------------------
(* C5: the conversation holds at most one file-content message for any     *)
(* resolved path.                                                          *)
ContentMessagesFor(path) ==
    Cardinality({i \in 1..Len(conversation_history) :
                    HasMarker(conversation_history[i], path)})

C5_AtMostOneContentMessagePerPath ==
    \A path \in FilePaths : ContentMessagesFor(path) <= 1

(* C8: create_file called with confirmation and answered with anything     *)
(* but 'y' (a negative or an empty answer) writes nothing and records      *)
(* nothing, and the edits of a response are applied only when their        *)
(* confirmation is answered 'y'; declining changes no file.                *)
Affirmative(answer) == Lower(Strip(answer)) = <<"y">>

C8_WritesNeedAnAffirmativeAnswer ==
    [][/\ (pc = "creating" /\ last'.prompted /\ ~Affirmative(last'.answer)) =>
            /\ last'.outcome = "Skipped"
            /\ files' = files
            /\ conversation_history' = conversation_history
       /\ (pc = "confirm_edits" /\ pc' = "editing") => Affirmative(last'.answer)
       /\ (pc = "confirm_edits" /\ pc' = "prompt") =>
            files' = files /\ pending_edits' = <<>>]_vars

(* C9: a create_file that ends in ContentTooLarge or InvalidPath, and an    *)
(* edit that fails for any reason (file missing, snippet missing or        *)
(* ambiguous, or its write refused by create_file), changes no file; a     *)
(* step changes at most the file it is aimed at, and then to the whole     *)
(* text it was asked to write.                                             *)
HasHomeSegment(raw) == \E i \in 1..Len(raw.segs) : SegChars(raw.segs[i])[1] = "~"

RequestedText(call) == IF call.op = "edit" THEN call.updated ELSE call.content

FailedCall(call) ==
    \/ call.outcome \in {"ContentTooLarge", "InvalidPath", "OSError", "Skipped",
                         "FileNotFound", "SnippetNotFound", "AmbiguousSnippet"}
    \/ /\ call.op = "edit"
       /\ TextLen(call.updated) > MaxContentSize \/ HasHomeSegment(call.path)

IsContentMessage(msg) == msg.kind = "content"

RECURSIVE CompleteExchanges(_)
CompleteExchanges(ms) ==
    IF Len(ms) < 2 THEN <<>>
    ELSE IF ms[1].role = "user" /\ ms[2].role = "assistant"
         THEN <<ms[1], ms[2]>> \o CompleteExchanges(SubSeq(ms, 3, Len(ms)))
         ELSE CompleteExchanges(Tail(ms))

ExpectedRebuild ==
    <<SystemPrompt>>
        \o SelectSeq(pre_log, IsContentMessage)
        \o CompleteExchanges(SelectSeq(pre_log, IsUserOrAssistant))
        \o <<UserMsg(rebuilt.user)>>

C10_RebuildKeepsPromptFilesPairsAndNewMessage ==
    requests > 0 =>
        /\ rebuilt.log = ExpectedRebuild
        /\ pc = "streaming" =>
              /\ Len(conversation_history) >= Len(rebuilt.log)
              /\ SubSeq(conversation_history, 1, Len(rebuilt.log)) = rebuilt.log
              /\ \A i \in (Len(rebuilt.log) + 1)..Len(conversation_history) :
                    IsContentMessage(conversation_history[i])

C10_Witness ==
    /\ pc = "streaming"
    /\ requests = 2
    /\ rebuilt.user = "fix"
    /\ \E i \in 1..Len(pre_log) : pre_log[i].kind = "created"
    /\ \E i \in 1..Len(pre_log) : pre_log[i].kind = "edited"
    /\ Len(SelectSeq(pre_log, IsContentMessage)) >= 2
    /\ Len(rebuilt.log) = 1 + Len(SelectSeq(pre_log, IsContentMessage)) + 2 + 1
    /\ Len(rebuilt.log) < Len(pre_log)

-----------------------------------------------------------------------------
(* C11: whatever the earlier requests did (succeeded, raised an API error,  *)
(* returned text that does not parse or does not fit the schema), the       *)
(* messages sent to the model (r1.py:516, the log while the request is      *)
(* streaming) have their user and assistant messages alternating user,      *)
(* assistant, ..., and end with the new user message, the only one without  *)
(* an answer.                                                               *)
Turns(log) == SelectSeq(log, IsUserOrAssistant)

Alternates(turns) ==
    \A i \in 1..Len(turns) :
        turns[i].role = (IF i % 2 = 1 THEN "user" ELSE "assistant")

C11_SentTurnsAlternate ==
    pc = "streaming" =>
        LET turns == Turns(conversation_history)
        IN /\ Alternates(turns)
           /\ Len(turns) % 2 = 1
           /\ turns[Len(turns)] = UserMsg(rebuilt.user)

C11_Witness ==
    /\ pc = "streaming"
    /\ requests = 2
    /\ response.outcome \in {"ApiError", "ParseFailure", "SchemaError"}
    /\ Len(Turns(pre_log)) = 1
    /\ Turns(conversation_history) = <<UserMsg(rebuilt.user)>>

-----------------------------------------------------------------------------
(* C12: at every point of a directory scan the included files are at most  *)
(* max_files and their sizes add up to at most max_total_size; a file the   *)
(* scan looks at whose size is above max_file_size, or whose size added to  *)
(* that of the files included so far is above max_total_size, is put on     *)
(* the skipped list and is not included (no message is added for it).       *)
RECURSIVE SumSizes(_)
SumSizes(paths) ==
    IF paths = <<>> THEN 0
    ELSE IF Len(paths) = 1 THEN TextLen(files[paths[1]].content)
    ELSE LET half == Len(paths) \div 2
         IN SumSizes(SubSeq(paths, 1, half))
              + SumSizes(SubSeq(paths, half + 1, Len(paths)))

C12_ScanStaysWithinLimits ==
    [][pc = "scanning" =>
         /\ Len(scan'.added) <= MaxFiles
         /\ scan'.total_files_processed <= MaxFiles
         /\ SumSizes(scan'.added) <= MaxTotalSize
         /\ scan'.total_size = SumSizes(scan'.added)
         /\ scan'.todo # scan.todo =>
               LET full_path == scan.todo[1]
                   file_size == TextLen(files[full_path].content)
               IN (\/ file_size > MaxFileSize
                   \/ SumSizes(scan.added) + file_size > MaxTotalSize) =>
                      /\ scan'.added = scan.added
                      /\ conversation_history' = conversation_history
                      /\ scan'.skipped = Append(scan.skipped, full_path)]_vars

C12_Witness ==
    /\ pc = "scanned"
    /\ scan.dir = <<"w", "g">>
    /\ scan.skipped = << <<"w", "g", "10">>, <<"w", "g", "12">>, <<"w", "g", "14">> >>
    /\ Len(scan.added) = 12
    /\ scan.total_size = MaxTotalSize - MaxFileSize + 3

(* C19: the scan of a directory holding a.py (text), b.png (binary) and     *)
(* .git/config includes a.py only, and lists both b.png and .git/config as  *)
(* skipped.                                                                 *)
ListedIn(path, paths) == \E i \in 1..Len(paths) : paths[i] = path

C19_RepoScanSkipsBinaryAndGit ==
    (pc = "scanned" /\ scan.dir = <<"w", "r">>) =>
        /\ scan.added = << <<"w", "r", "a.py">> >>
        /\ ListedIn(<<"w", "r", "b.png">>, scan.skipped)
        /\ ListedIn(<<"w", "r", ".git", "config">>, scan.skipped)

-----------------------------------------------------------------------------
(* C13: a response's creations and edits are handled one by one, and the    *)
(* failure of one stops nothing else.  The edits kept for the response are  *)
(* all those whose path normalizes and whose file can be read, in order     *)
(* (an invalid path or a missing file drops that edit only); every          *)
(* creation is given to create_file and every kept edit, once confirmed,    *)
(* to apply_diff_edit, whatever the items before it did; and no item ends   *)
(* the session: it ends only by an interrupt, which touches nothing.        *)
ExpectedEdits(edits, fs) ==
    LET readable(edit) ==
            /\ NormalizePath(edit.path).ok
            /\ ReadLocalFile(fs, AbsPath(NormalizePath(edit.path).path)).ok
        kept == SelectSeq(edits, readable)
    IN [i \in 1..Len(kept) |->
          [kept[i] EXCEPT !.path = AbsPath(NormalizePath(kept[i].path).path)]]

C13_OneFailureStopsNothingElse ==
    [][/\ (pc = "streaming" /\ response'.outcome = "Reply") =>
            \E r \in Responses :
                /\ pending_creates' = FilesToCreate(r)
                /\ pending_edits' = ExpectedEdits(FilesToEdit(r), files)
       /\ (pc = "creating" /\ pc' # "crashed") =>
            /\ last'.op = "create"
            /\ last'.path = pending_creates[1].path
            /\ last'.content = pending_creates[1].content
            /\ last'.outcome # "none"
            /\ pending_creates' = Tail(pending_creates)
            /\ pending_edits' = pending_edits
            /\ pc' = IF Tail(pending_creates) # <<>> THEN "creating"
                     ELSE IF pending_edits # <<>> THEN "confirm_edits"
                     ELSE "prompt"
       /\ pc = "editing" =>
            /\ last'.op = "edit"
            /\ last'.path = pending_edits[1].path
            /\ last'.original = pending_edits[1].original
            /\ last'.new = pending_edits[1].new
            /\ last'.outcome # "none"
            /\ pending_edits' = Tail(pending_edits)
            /\ pc' = IF Tail(pending_edits) # <<>> THEN "editing" ELSE "prompt"
       /\ (pc \in {"creating", "confirm_edits", "editing"} /\ pc' = "crashed") =>
            UNCHANGED <<files, conversation_history, last>>]_vars

C13_Witness ==
    /\ pc = "prompt"
    /\ response.outcome = "Reply"
    /\ last.op = "edit"
    /\ last.path = AbsPath(PT)
    /\ last.outcome = "Applied"
    /\ ~last.wrote
    /\ files[PA] = FileOf(<<"a", "a", "a", "a">>)
    /\ files[PT] = FileOf(<<"a">>)

-----------------------------------------------------------------------------
(* C14: a limiter with max_calls = 0 never reaches an acquisition: its      *)
(* construction is rejected, so no call of it is admitted and none fails    *)
(* inside __call__.                                                         *)
C14_ZeroMaxCallsNeverAcquires ==
    max_calls = 0 => /\ rl_result = "none"
                     /\ admitted = <<>>

(* C15: normalize_path fails for every raw path with a segment that        *)
(* starts with "~".                                                         *)
C15_HomeSegmentRejected ==
    (np_result.called /\ HasHomeSegment(np_input)) => ~np_result.ok

(* C16: a step of the session changes a file only when the path it was      *)
(* given has passed the sandbox validation in that step, which is to say    *)
(* the path normalizes and its resolved location, the file changed, lies    *)
(* inside the workspace tree.                                               *)
C16_WritesOnlyOnValidatedPaths ==
    [][\A p \in FilePaths :
          files'[p] # files[p] =>
              /\ pc \in {"creating", "editing"}
              /\ NormalizePath(last'.path).ok
              /\ p = ResolvedLocation(last'.path)
              /\ InWorkspaceTree(p)]_vars

(* C17: a response that does not parse ends the request with a reply whose *)
(* assistant_reply is the raw response text and that holds no creation and  *)
(* no edit; no file changes, and the session is back at its prompt without  *)
(* another request having been made.                                        *)
C17_ParseFailureReturnsRawText ==
    [][(pc = "streaming" /\ response'.outcome = "ParseFailure") =>
          /\ response'.assistant_reply = FinalContent
          /\ pending_creates' = <<>>
          /\ pending_edits' = <<>>
          /\ files' = files
          /\ requests' = requests
          /\ pc' = "prompt"]_vars

-----------------------------------------------------------------------------
(* C18: an interrupt while the response is streaming puts the log back to   *)
(* what the request found and changes no file, and the session is at its    *)
(* prompt again; an interrupt at a confirmation (of a creation or of the    *)
(* edits) changes neither log nor file and the session goes on.             *)
C18_InterruptRestoresPriorState ==
    [][Interrupt =>
          /\ pc = "streaming" =>
                /\ conversation_history' = pre_log
                /\ files' = files
                /\ pc' = "prompt"
          /\ pc \in {"creating", "confirm_edits"} =>
                /\ conversation_history' = conversation_history
                /\ files' = files
                /\ pc' \notin {"crashed", "finished"}]_vars

(* C20: adding the content of a file whose resolved path a message of the   *)
(* log already marks appends nothing: no step raises the number of          *)
(* file-content messages of a path that is marked already.                  *)
MarkersOf(log, path) ==
    Cardinality({i \in 1..Len(log) : HasMarker(log[i], path)})

C20_AddingMarkedPathAppendsNothing ==
    [][\A path \in FilePaths :
          MarkerPresent(conversation_history, path) =>
              MarkersOf(conversation_history', path)
                  <= MarkersOf(conversation_history, path)]_vars

-----------------------------------------------------------------------------
(* C21: the rebuild of a log whose last user/assistant message is a user    *)
(* message without an answer drops that message before it appends the new   *)
(* one; and the rebuild of a log that was just rebuilt, with the same new   *)
(* user message, gives that log again (same messages, same order, same      *)
(* count).                                                                  *)
EndsUnanswered(log) ==
    Turns(log) # <<>> /\ Turns(log)[Len(Turns(log))].role = "user"

C21_RebuildDropsUnpairedAndIsIdempotent ==
    [][(pc' \in {"answered", "failed"} /\ requests' = requests + 1) =>
          /\ EndsUnanswered(conversation_history) =>
                Turns(rebuilt'.log) =
                    SubSeq(Turns(conversation_history), 1,
                           Len(Turns(conversation_history)) - 1)
                        \o <<UserMsg(rebuilt'.user)>>
          /\ (conversation_history = rebuilt.log /\ rebuilt'.user = rebuilt.user) =>
                rebuilt'.log = rebuilt.log]_vars

C21_Witness ==
    /\ pc = "failed"
    /\ requests >= 4
    /\ pre_log = rebuilt.log
    /\ EndsUnanswered(pre_log)
    /\ Len(Turns(pre_log)) = 3
    /\ conversation_history = pre_log

(* C22: trim_conversation_history keeps every system message and, of the    *)
(* user and assistant messages, the most recent MaxPairs complete exchanges *)
(* (a user message and the assistant message after it) and nothing else;    *)
(* a trailing user message without an answer may stay or go.                *)
LastExchanges(turns, k) ==
    LET exchanges == CompleteExchanges(turns)
    IN IF Len(exchanges) > 2 * k
       THEN SubSeq(exchanges, Len(exchanges) - 2 * k + 1, Len(exchanges))
       ELSE exchanges

C22_TrimKeepsRecentCompleteExchanges ==
    pc = "trimmed" =>
        LET kept == SelectSeq(pre_log, IsSystem)
                      \o LastExchanges(Turns(pre_log), MaxPairs)
            turns == Turns(pre_log)
        IN \/ conversation_history = kept
           \/ /\ EndsUnanswered(pre_log)
              /\ conversation_history = Append(kept, turns[Len(turns)])

(* C25: the log never holds more user and assistant messages than the       *)
(* pruning policy allows, MaxPairs exchanges, and the new user message.     *)
C25_TurnsStayBounded ==
    Len(Turns(conversation_history)) <= 2 * MaxPairs + 1

(* C26: the first message of the log is the original system prompt, after   *)
(* any sequence of requests, added files, file-operation records and trims. *)
C26_FirstMessageIsSystemPrompt ==
    /\ conversation_history # <<>>
    /\ conversation_history[1] = SystemPrompt

C26_Witness ==
    /\ pc = "trimmed"
    /\ requests = MaxLogRequests
    /\ adds = MaxLogAdds
    /\ Len(Turns(pre_log)) > 2 * MaxPairs
    /\ Len(SelectSeq(conversation_history, IsSystem)) > 1
    /\ pre_log[2].role = "user"
    /\ conversation_history[2].role = "system"

-----------------------------------------------------------------------------
(* C23: a message saying that a file was created/updated, or that a diff    *)
(* edit was applied, is appended only by a step that wrote that file, and   *)
(* a create that wrote appends the file-content message of the path with    *)
(* the content it wrote.                                                    *)
C23_RecordsOnlyOfWrites ==
    [][(pc \in {"creating", "editing"} /\ pc' # "crashed") =>
          LET new == SubSeq(conversation_history', Len(conversation_history) + 1,
                            Len(conversation_history'))
              loc == ResolvedLocation(last'.path)
          IN /\ (\E i \in 1..Len(new) : new[i].kind \in {"created", "edited"}) =>
                   /\ last'.wrote
                   /\ files'[loc] = FileOf(RequestedText(last'))
             /\ (last'.op = "create" /\ last'.wrote) =>
                   /\ files'[loc] = FileOf(last'.content)
                   /\ \E i \in 1..Len(new) : new[i] = ContentMsg(loc, last'.content)]_vars

(* C24: a request is sent by a step that enters the rate limiter exactly    *)
(* once, and nothing else enters it; no file changes in that step nor       *)
(* while the response is streamed; files change only in the steps that      *)
(* carry out the creations and edits of an accepted response, and those     *)
(* are over when the next request is sent.                                  *)
C24_OneAcquisitionAndWritesAfterTheStream ==
    [][/\ (pc = "prompt" /\ pc' = "streaming") =>
            /\ Len(admitted') = Len(admitted) + 1
            /\ Len(timestamps') = Len(timestamps) + 1
            /\ files' = files
            /\ pending_creates = <<>> /\ pending_edits = <<>>
       /\ Len(admitted') # Len(admitted) => (pc = "prompt" /\ pc' = "streaming")
       /\ pc = "streaming" => files' = files
       /\ files' # files =>
            /\ pc \in {"creating", "editing"}
            /\ response.outcome = "Reply"]_vars

C24_Witness ==
    /\ pc = "streaming"
    /\ requests = 2
    /\ admitted = <<0, 0>>
    /\ timestamps = <<0, 0>>
    /\ response.outcome = "Reply"
    /\ files[PA] = FileOf(<<"b">>)

=============================================================================
